---- MODULE Spec2Model ----
(***************************************************************************)
(* Mip-Explorer: the result cache of MipExplorer.py (ensure_cache_version, *)
(* try_getting_cached_results, save_cached_results, get_plot_values), the  *)
(* engine of core.py (is_mip_mappable, calculate_raw_deltas,               *)
(* interpret_deltas), the type inference of settings.py, the batch scan of *)
(* browser.py, and the settings dialog and the type selector of            *)
(* MipExplorer.py, as state machines.                                      *)
(*                                                                         *)
(* The cache file is modelled by what its JSON text decodes to: a dict     *)
(* with the keys it holds, its Version and its two categories, each an     *)
(* insertion-ordered dict (a sequence of entries, oldest first).           *)
(***************************************************************************)
EXTENDS Integers, Sequences, FiniteSets, TLC

VARIABLES
    dirExists,   \* the Saved directory exists
    cacheFile,   \* Saved/CachedData.json on disk
    mtime,       \* os.path.getmtime of every texture file
    pc,          \* "start": before ensure_cache_version ran, "running": after
    last,        \* the operation performed last, its arguments and its outcome
    width,       \* is_mip_mappable: argument
    height,      \* is_mip_mappable: argument
    mappable,    \* is_mip_mappable: "uncalled", or the value returned
    infer,       \* Settings.get_automatic_texture_type: settings, file name, result
    interp,      \* interpret_deltas: raw deltas, texture type, result
    raw,         \* calculate_raw_deltas: the file, the flags, the result
    scan,        \* FileBrowser.process_current_directory and its widgets
    dialog,      \* WorkModeSettingsDialog and the affix list it edits
    window,      \* MainWindow: the type selector and the last handle_update
    browser,     \* FileBrowser: address, tree, list root, icon provider
    viewer,      \* TextureViewer: mip selector, zoom slider, texture_size
    results,     \* ResultsViewer: the chart and the numeric panel
    dark         \* is_system_dark: the platform, the query's outcome, the result

vars == <<dirExists, cacheFile, mtime, pc, last, width, height, mappable,
          infer, interp, raw, scan, dialog, window,
          browser, viewer, results, dark>>

cacheVars == <<dirExists, cacheFile, mtime, pc, last>>

mipVars == <<width, height, mappable>>

\* the variables of the units that have one variable each
unitVars == <<infer, interp, raw, scan, dialog, window>>

\* the widgets outside the main window's update path, and the theme query
uiVars == <<browser, viewer, results, dark>>

nonCacheVars == <<mipVars, unitVars, uiVars>>

\* a unit that a specification does not run
Idle == [pc |-> "idle"]

UnitsIdle ==
    /\ infer = Idle /\ interp = Idle /\ raw = Idle
    /\ scan = Idle /\ dialog = Idle /\ window = Idle

UiIdle == browser = Idle /\ viewer = Idle /\ results = Idle /\ dark = Idle

----------------------------------------------------------------------------
(* Bounds of the model *)

\* texture files 1..MaxPath are the ones analysed, re-analysed and modified
MaxPath == 1

\* modification times run over 0..MaxTime
MaxTime == 2

\* paths beyond the cache capacity that a run may try to store
ExtraPaths == 1

\* is_mip_mappable is applied to every size in 0..MaxDim ...
MaxDim == 40

\* ... and to the powers of two 2^0..2^MaxExp and their neighbours
MaxExp == 29

----------------------------------------------------------------------------
(* Program constants *)

CACHESIZE == 100

CACHEVERSION == 3

ALLOW_CACHING == TRUE

\* class WorkMode, without MAX: the types the type selector offers
WorkMode == {"COLOR", "DATA", "CHANNELS", "NORMAL"}

Categories == {"Results", "Results_Normal"}

\* a Version written by an earlier release of the tool
StaleVersion == CACHEVERSION - 1

Paths == 1..MaxPath

AllPaths == 1..(CACHESIZE + ExtraPaths)

\* calculate_deltas reads the file: its result, a non-empty list, is fixed by
\* the file's content, which changes with every modification of the file
calculate_deltas(filepath, mt) == IF mt[filepath] % 2 = 0 THEN <<1>> ELSE <<2, 1>>

\* Python's None
None == <<>>

----------------------------------------------------------------------------
(* dicts: an insertion-ordered dict from path to (values, time) is the     *)
(* sequence of its items                                                    *)

DictKeys(d) == {d[i].path : i \in 1..Len(d)}

DictHas(d, k) == k \in DictKeys(d)

DictIndex(d, k) == CHOOSE i \in 1..Len(d) : d[i].path = k

DictGet(d, k) == d[DictIndex(d, k)]

\* dict.update({k: v}): an existing key keeps its place, a new key goes last
DictUpdate(d, e) ==
    IF DictHas(d, e.path)
    THEN [d EXCEPT ![DictIndex(d, e.path)] = e]
    ELSE Append(d, e)

\* the dict json.load yields for a file, or dict() itself
EmptyData == [keys |-> {}, Version |-> 0, cats |-> [c \in Categories |-> <<>>]]

MissingFile == [exists |-> FALSE, parses |-> FALSE, data |-> EmptyData]

\* a file of length 0, which json.load rejects
EmptyFile == [exists |-> TRUE, parses |-> FALSE, data |-> EmptyData]

JsonFile(data) == [exists |-> TRUE, parses |-> TRUE, data |-> data]

\* every entry the file holds under category c
Entries(file, c) == file.data.cats[c]

----------------------------------------------------------------------------
(* ensure_cache_version *)

\* mutant: the comparison with CACHEVERSION is lost
is_version_correct_always(data) == TRUE

\* is_version_correct, after the lines 184 and 192-193
is_version_correct(data) ==
    IF "Version" \in data.keys THEN CACHEVERSION = data.Version ELSE TRUE

\* mutant: a missing or removed file is replaced by a fresh empty one
ensure_cache_file_recreates(file) ==
    IF ~file.exists THEN EmptyFile
    ELSE IF ~file.parses THEN file
    ELSE IF ~is_version_correct(file.data) THEN EmptyFile
    ELSE file

\* the file ensure_cache_version leaves: open() or json.load raising is
\* swallowed, a wrong Version removes the file, nothing creates one
ensure_cache_file(file) ==
    IF ~file.exists \/ ~file.parses THEN file
    ELSE IF ~is_version_correct(file.data) THEN MissingFile
    ELSE file

----------------------------------------------------------------------------
(* try_getting_cached_results *)

\* mutant: the category is the one of the ordinary types and the
\* modification times are not compared
try_getting_cached_results_unchecked(filepath, file, mt) ==
    IF ~ALLOW_CACHING THEN None
    ELSE IF ~file.exists \/ ~file.parses THEN None
    ELSE IF "Results" \in file.data.keys /\ DictHas(file.data.cats["Results"], filepath)
         THEN DictGet(file.data.cats["Results"], filepath).values
         ELSE None

\* line 209 binds the function get_results_category itself, it does not call
\* it: category is a function object, which equals no key of a decoded JSON dict
LookupCategory == "<function get_results_category>"

try_getting_cached_results(filepath, file, mt) ==
    LET category == LookupCategory IN
    IF ~ALLOW_CACHING THEN None
    ELSE IF ~file.exists \/ ~file.parses THEN None       \* except: pass
    ELSE IF category \in file.data.keys
         THEN IF DictHas(file.data.cats[category], filepath)
              THEN LET last_time_modified == mt[filepath]
                       cached_last_time_modified ==
                           DictGet(file.data.cats[category], filepath).time
                   IN IF last_time_modified <= cached_last_time_modified
                      THEN DictGet(file.data.cats[category], filepath).values
                      ELSE None
              ELSE None
         ELSE None

----------------------------------------------------------------------------
(* save_cached_results *)

\* mutant: every type is filed under "Results"
get_results_category_single(work_mode) == "Results"

get_results_category(work_mode) ==
    IF work_mode = "NORMAL" THEN "Results_Normal" ELSE "Results"

\* line 229 tests the bound method Path.exists, not its result: always truthy
output_file_path_exists == TRUE

\* mutant: the capacity test is off by one
exceeds_cachesize_late(d) == Len(d) > CACHESIZE + 1

\* line 244
exceeds_cachesize(d) == Len(d) > CACHESIZE

\* dict.popitem takes no argument (only OrderedDict.popitem takes last=False)
\* and json.load yields plain dicts: popitem(False) raises TypeError
popitem_accepts_argument == FALSE

\* lines 238-250 on the decoded dict; raised when popitem(False) raises
updated_data(data, category, cache_entry) ==
    LET d1 == IF category \in data.keys
              THEN [data EXCEPT !.cats[category] = DictUpdate(@, cache_entry)]
              ELSE [data EXCEPT !.keys = @ \cup {category},
                                !.cats[category] = <<cache_entry>>]
        over == exceeds_cachesize(d1.cats[category])
        d2 == IF over /\ popitem_accepts_argument
              THEN [d1 EXCEPT !.cats[category] = Tail(@)]
              ELSE d1
    IN [raised |-> over /\ ~popitem_accepts_argument,
        data   |-> [d2 EXCEPT !.keys = @ \cup {"Version"}, !.Version = CACHEVERSION]]

\* the whole of save_cached_results: the file it leaves, whether the try block
\* raised, and whether an exception left the function (the handler's own
\* open(cachepath, 'a') needs the directory)
save_cached_results(y_axis_values, filepath, file, mt, dir, work_mode) ==
    LET category == get_results_category(work_mode)
        cache_entry == [path |-> filepath, values |-> y_axis_values, time |-> mt[filepath]]
        file1 == IF ~output_file_path_exists THEN EmptyFile ELSE file
        data == IF file1.parses THEN file1.data ELSE EmptyData   \* json.load raised
        upd == updated_data(data, category, cache_entry)
        raised == ~file1.exists \/ upd.raised
    IN [raised |-> raised,
        propagated |-> raised /\ ~file1.exists /\ ~dir,
        file |-> IF ~raised THEN JsonFile(upd.data)
                 ELSE IF file1.exists \/ ~dir THEN file1     \* mode 'a' keeps the content
                 ELSE EmptyFile]

----------------------------------------------------------------------------
(* The state machine of the cache *)

NoOp ==
    [op |-> "none", path |-> 0, type |-> "none", values |-> None, force |-> FALSE,
     result |-> None, raised |-> FALSE, propagated |-> FALSE, recomputed |-> FALSE,
     saved |-> FALSE, follows |-> None, removed |-> FALSE, hadEntries |-> FALSE]

HasEntries(file) == \E c \in Categories : Entries(file, c) # <<>>

\* the values that the operation just before this one stored for p, if it was
\* a store that wrote the file
Follows(p) ==
    IF last.saved /\ ~last.raised /\ last.path = p THEN last.values ELSE None

\* a cache file as an earlier run, possibly of an earlier release, left it
EarlierEntry == [path |-> 1, values |-> <<1>>, time |-> 0]

EarlierFiles ==
    {MissingFile, EmptyFile} \cup
    { JsonFile([keys |-> {c} \cup (IF v = 0 THEN {} ELSE {"Version"}),
                Version |-> v,
                cats |-> [x \in Categories |-> IF x = c THEN <<EarlierEntry>> ELSE <<>>]])
      : c \in Categories, v \in {0, CACHEVERSION, StaleVersion} }

MipIdle == width = 0 /\ height = 0 /\ mappable = "uncalled"

Init ==
    /\ dirExists \in BOOLEAN
    /\ cacheFile \in EarlierFiles
    /\ cacheFile.exists => dirExists
    /\ mtime = [p \in AllPaths |-> 0]
    /\ pc = "start"
    /\ last = NoOp
    /\ MipIdle
    /\ UiIdle
    /\ UnitsIdle

\* __main__, lines 1120-1122, and ensure_cache_version
EnsureCacheVersion ==
    /\ pc = "start"
    /\ pc' = "running"
    /\ dirExists' = TRUE                              \* os.makedirs(exist_ok = True)
    /\ cacheFile' = ensure_cache_file(cacheFile)
    /\ last' = [NoOp EXCEPT !.op = "ensure",
                            !.removed = cacheFile.exists /\ ~cacheFile'.exists,
                            !.hadEntries = HasEntries(cacheFile)]
    /\ UNCHANGED <<mtime, nonCacheVars>>

TryGettingCachedResults(filepath) ==
    /\ pc = "running"
    /\ last' = [NoOp EXCEPT !.op = "lookup", !.path = filepath,
                            !.result = try_getting_cached_results(filepath, cacheFile, mtime),
                            !.follows = Follows(filepath)]
    /\ UNCHANGED <<dirExists, cacheFile, mtime, pc, nonCacheVars>>

SaveCachedResults(y_axis_values, filepath, work_mode) ==
    /\ pc = "running"
    /\ LET r == save_cached_results(y_axis_values, filepath, cacheFile, mtime,
                                    dirExists, work_mode)
       IN /\ cacheFile' = r.file
          /\ last' = [NoOp EXCEPT !.op = "store", !.path = filepath, !.type = work_mode,
                                  !.values = y_axis_values, !.saved = TRUE,
                                  !.raised = r.raised, !.propagated = r.propagated]
    /\ UNCHANGED <<dirExists, mtime, pc, nonCacheVars>>

\* get_plot_values up to the deltas it hands to convert_deltas_to_plot_values:
\* the cache file it leaves, the deltas, and what became of the store
get_plot_values(filepath, work_mode, force_update, file, mt, dir) ==
    LET cached == IF ~force_update
                  THEN try_getting_cached_results(filepath, file, mt)
                  ELSE None
        miss == cached = None                       \* if not deltas
        deltas == IF miss THEN calculate_deltas(filepath, mt) ELSE cached
        r == save_cached_results(deltas, filepath, file, mt, dir, work_mode)
    IN  [file |-> IF miss THEN r.file ELSE file, deltas |-> deltas, miss |-> miss,
         raised |-> miss /\ r.raised, propagated |-> miss /\ r.propagated]

\* the record of a call of get_plot_values
PlotOp(filepath, work_mode, force_update, r) ==
    [NoOp EXCEPT !.op = "plot", !.path = filepath, !.type = work_mode,
                 !.force = force_update, !.values = r.deltas,
                 !.result = r.deltas, !.recomputed = r.miss,
                 !.saved = r.miss, !.raised = r.raised,
                 !.propagated = r.propagated,
                 !.follows = Follows(filepath)]

GetPlotValues(filepath, work_mode, force_update) ==
    /\ pc = "running"
    /\ LET r == get_plot_values(filepath, work_mode, force_update,
                                cacheFile, mtime, dirExists)
       IN /\ cacheFile' = r.file
          /\ last' = PlotOp(filepath, work_mode, force_update, r)
    /\ UNCHANGED <<dirExists, mtime, pc, nonCacheVars>>

\* the texture file is written by another program: a later modification time
Touch(filepath) ==
    /\ mtime[filepath] < MaxTime
    /\ mtime' = [mtime EXCEPT ![filepath] = @ + 1]
    /\ last' = [NoOp EXCEPT !.op = "touch", !.path = filepath]
    /\ UNCHANGED <<dirExists, cacheFile, pc, nonCacheVars>>

\* the application is closed; the next run starts at __main__
Restart ==
    /\ pc = "running"
    /\ pc' = "start"
    /\ last' = [NoOp EXCEPT !.op = "exit"]
    /\ UNCHANGED <<dirExists, cacheFile, mtime, nonCacheVars>>

Next ==
    \/ EnsureCacheVersion
    \/ \E p \in Paths : TryGettingCachedResults(p)
    \/ \E p \in Paths, t \in WorkMode : SaveCachedResults(calculate_deltas(p, mtime), p, t)
    \/ \E p \in Paths, t \in WorkMode, f \in BOOLEAN : GetPlotValues(p, t, f)
    \/ \E p \in Paths : Touch(p)
    \/ Restart

Spec == Init /\ [][Next]_vars

----------------------------------------------------------------------------
(* Filling a category to its capacity: the paths are stored in the order   *)
(* 1, 2, 3, ..., each store taking the oldest path held or the next new one *)

FillModes == {"COLOR", "NORMAL"}

FillPaths(work_mode) ==
    LET d == Entries(cacheFile, get_results_category(work_mode))
    IN IF d = <<>> THEN {1}
       ELSE {d[1].path, d[Len(d)].path + 1} \cap AllPaths

InitFill ==
    /\ dirExists \in BOOLEAN
    /\ cacheFile \in {MissingFile, EmptyFile}
    /\ cacheFile.exists => dirExists
    /\ mtime = [p \in AllPaths |-> 0]
    /\ pc = "start"
    /\ last = NoOp
    /\ MipIdle
    /\ UiIdle
    /\ UnitsIdle

NextFill ==
    \/ EnsureCacheVersion
    \/ \E t \in FillModes : \E p \in FillPaths(t) : SaveCachedResults(calculate_deltas(p, mtime), p, t)
    \/ \E t \in FillModes : \E p \in FillPaths(t) : TryGettingCachedResults(p)

SpecFill == InitFill /\ [][NextFill]_vars

----------------------------------------------------------------------------
(* core.is_mip_mappable *)

IsPowerOfTwo(n) == \E k \in 0..MaxExp : n = 2^k

\* math.log(n, 2) is the double quotient log(n) / log(2). For n = 2^k the
\* quotient is the double k except for these k below 64, where it is the next
\* double above k (math.log(2**29, 2) is 29.000000000000004); for every other
\* n > 0 of the sizes modelled it is no whole number
InexactLog2Exponents == {29, 31, 39, 47, 51, 55, 58, 59, 62}

\* math.log(n, 2).is_integer(), for n > 0
log2_is_integer(n) ==
    \E k \in (0..MaxExp) \ InexactLog2Exponents : n = 2^k

is_mip_mappable(w, h) ==
    IF w = 0 \/ h = 0 THEN FALSE
    ELSE /\ log2_is_integer(w)
         /\ log2_is_integer(h)
         /\ w > 3
         /\ h > 3

\* the sizes is_mip_mappable is applied to
Dims == (0..MaxDim) \cup {2^k + d : k \in 0..MaxExp, d \in {-1, 0, 1}}

CacheIdle ==
    /\ dirExists = FALSE
    /\ cacheFile = MissingFile
    /\ mtime = [p \in AllPaths |-> 0]
    /\ pc = "idle"
    /\ last = NoOp

InitMip ==
    /\ width \in Dims
    /\ height \in Dims
    /\ mappable = "uncalled"
    /\ CacheIdle
    /\ UnitsIdle
    /\ UiIdle

IsMipMappable ==
    /\ mappable = "uncalled"
    /\ mappable' = IF is_mip_mappable(width, height) THEN "True" ELSE "False"
    /\ UNCHANGED <<width, height, cacheVars, unitVars, uiVars>>

NextMip == IsMipMappable

SpecMip == InitMip /\ [][NextMip]_vars

----------------------------------------------------------------------------
(* The claims about the result cache *)

\* the category the specification names for a texture type
ClaimedCategory(work_mode) ==
    IF work_mode = "NORMAL" THEN "Results_Normal" ELSE "Results"

OtherCategory(c) == IF c = "Results" THEN "Results_Normal" ELSE "Results"

\* the file holds, under category c, an entry for p that is not older than p
FreshEntry(file, c, p) ==
    /\ DictHas(Entries(file, c), p)
    /\ DictGet(Entries(file, c), p).time >= mtime[p]

StaleEntry(file, c, p) ==
    /\ DictHas(Entries(file, c), p)
    /\ DictGet(Entries(file, c), p).time < mtime[p]

\* C1: a lookup that directly follows a store of the same file (the file not
\* modified in between) returns exactly the stored sequence, and
\* get_plot_values without force_update then does not recompute.
CacheRoundTrip ==
    /\ (last.op = "lookup" /\ last.follows # None) => last.result = last.follows
    /\ (last.op = "plot" /\ ~last.force /\ last.follows # None) => ~last.recomputed

\* C2: a lookup never returns a sequence whose stored timestamp is smaller
\* than the file's modification time: what it returns is the sequence of an
\* entry at least as new as the file, and while every entry of the file is
\* older than the file it reports no cached value.
CacheStaleness ==
    /\ (last.op = "lookup" /\ last.result # None) =>
           \E c \in Categories :
               /\ FreshEntry(cacheFile, c, last.path)
               /\ DictGet(Entries(cacheFile, c), last.path).values = last.result
    /\ (last.op = "plot" /\ ~last.recomputed) =>
           \E c \in Categories :
               /\ FreshEntry(cacheFile, c, last.path)
               /\ DictGet(Entries(cacheFile, c), last.path).values = last.result
    /\ (/\ last.op = "lookup"
        /\ \A c \in Categories : ~FreshEntry(cacheFile, c, last.path))
           => last.result = None

\* C2, witness: a lookup of a file modified after its entry was stored
\* reported no cached value.
CacheStalenessWitness ==
    /\ last.op = "lookup"
    /\ \E c \in Categories : StaleEntry(cacheFile, c, last.path)
    /\ last.result = None

\* C3: a store of a new path into a category holding CACHESIZE entries leaves
\* CACHESIZE entries: the oldest is gone, the other ones keep their order and
\* the new entry is the last.
FifoEviction ==
    [][\A c \in Categories :
          (/\ last'.op = "store"
           /\ ClaimedCategory(last'.type) = c
           /\ Len(Entries(cacheFile, c)) = CACHESIZE
           /\ ~DictHas(Entries(cacheFile, c), last'.path))
          => LET old == Entries(cacheFile, c)
                 new == Entries(cacheFile', c)
             IN /\ Len(new) = CACHESIZE
                /\ DictHas(new, last'.path)
                /\ ~DictHas(new, old[1].path)
                /\ \A i \in 2..CACHESIZE : new[i - 1] = old[i]]_vars

\* C4: each category of the persisted cache file holds at most CACHESIZE
\* entries, after any sequence of stores.
CacheCapacity ==
    \A c \in Categories : Len(Entries(cacheFile, c)) <= CACHESIZE

\* C4, witness: a store of one more new path was made into a category that
\* holds CACHESIZE entries.
CacheCapacityWitness ==
    /\ last.op = "store" /\ last.raised
    /\ Len(Entries(cacheFile, ClaimedCategory(last.type))) = CACHESIZE
    /\ ~DictHas(Entries(cacheFile, ClaimedCategory(last.type)), last.path)

\* C5: after a store into a category with room left, the Saved directory
\* being there, the file holds under the type's category the entry
\* (sequence, modification time) of the path, whatever the file was before.
StorePersists ==
    (last.saved /\ dirExists) =>
        LET d == Entries(cacheFile, ClaimedCategory(last.type))
        IN /\ cacheFile.exists /\ cacheFile.parses
           /\ DictHas(d, last.path)
           /\ DictGet(d, last.path) =
                  [path |-> last.path, values |-> last.values, time |-> mtime[last.path]]

VersionMismatch(file) ==
    file.exists /\ file.parses /\ "Version" \in file.data.keys
        /\ file.data.Version # CACHEVERSION

VersionMatch(file) ==
    file.exists /\ file.parses /\ "Version" \in file.data.keys
        /\ file.data.Version = CACHEVERSION

StoreFailureEmptiesFile ==
    (last.saved /\ last.raised) => (~last.propagated /\ cacheFile = EmptyFile)

\* C9: a store for NORMAL writes only to Results_Normal and a store for any
\* other type only to Results: the entries of the other category are the
\* same before and after, and a store that wrote the file put its entry
\* under the type's category.
CategoryIsolation ==
    [][last'.saved =>
          LET c == ClaimedCategory(last'.type)
          IN /\ Entries(cacheFile', OtherCategory(c)) = Entries(cacheFile, OtherCategory(c))
             /\ ~last'.raised =>
                    /\ DictHas(Entries(cacheFile', c), last'.path)
                    /\ DictGet(Entries(cacheFile', c), last'.path).values = last'.values]_vars

\* C9, witness: a store for NORMAL wrote the file while Results held entries.
CategoryIsolationWitness ==
    /\ last.saved /\ ~last.raised /\ last.type = "NORMAL"
    /\ DictHas(Entries(cacheFile, "Results_Normal"), last.path)
    /\ Entries(cacheFile, "Results") # <<>>

----------------------------------------------------------------------------
(* The claim about is_mip_mappable *)

\* C10: is_mip_mappable(width, height) is true exactly if width and height
\* are both powers of two and both greater than 3.
MipMappableIffPowersOfTwo ==
    mappable # "uncalled" =>
        (mappable = "True" <=>
            (IsPowerOfTwo(width) /\ IsPowerOfTwo(height) /\ width > 3 /\ height > 3))

(***************************************************************************)
(* settings.py: Settings.get_automatic_texture_type.  A file path is a     *)
(* sequence of characters; the affix lists are sets, since any() does not  *)
(* depend on their order.                                                  *)
(***************************************************************************)

MaxNameLen == 3

TextureType == WorkMode \cup {"MAX"}

PathChars == {"c", "n", ".", "/"}

Affixes == {<<"c">>, <<"n">>}

FilePaths == UNION {[1..n -> PathChars] : n \in 0..MaxNameLen}

\* str.rfind, counted from 1: 0 when ch does not occur
rfind(s, ch) ==
    IF \E i \in DOMAIN s : s[i] = ch
    THEN CHOOSE i \in DOMAIN s :
             s[i] = ch /\ \A j \in DOMAIN s : s[j] = ch => j <= i
    ELSE 0

\* os.path.basename: what follows the last separator
basename(p) == SubSeq(p, rfind(p, "/") + 1, Len(p))

\* os.path.splitext(p)[0] of a name without separators: the name up to its
\* last dot, if a character other than a dot precedes that dot
splitext_root(p) ==
    LET d == rfind(p, ".")
    IN  IF d > 0 /\ \E k \in 1..(d - 1) : p[k] # "."
        THEN SubSeq(p, 1, d - 1)
        ELSE p

endswith(s, affix) ==
    /\ Len(affix) <= Len(s)
    /\ SubSeq(s, Len(s) - Len(affix) + 1, Len(s)) = affix

startswith(s, affix) ==
    /\ Len(affix) <= Len(s)
    /\ SubSeq(s, 1, Len(affix)) = affix

any_affix(base_name, affixes) ==
    \/ \E affix \in affixes : endswith(base_name, affix)
    \/ \E affix \in affixes : startswith(base_name, affix)

\* the same lookup with the normal affixes tried first
get_automatic_texture_type_normal_first(filePath, settings) ==
    IF settings.use_automatic_texture_type = FALSE
    THEN "MAX"
    ELSE LET base_name == splitext_root(basename(filePath))
         IN  IF any_affix(base_name, settings.normal_affixes) THEN "NORMAL"
             ELSE IF any_affix(base_name, settings.color_affixes) THEN "COLOR"
             ELSE IF any_affix(base_name, settings.data_affixes) THEN "DATA"
             ELSE IF any_affix(base_name, settings.channels_affixes) THEN "CHANNELS"
             ELSE "MAX"

get_automatic_texture_type(filePath, settings) ==
    IF settings.use_automatic_texture_type = FALSE
    THEN "MAX"
    ELSE LET base_name == splitext_root(basename(filePath))
         IN  IF any_affix(base_name, settings.color_affixes) THEN "COLOR"
             ELSE IF any_affix(base_name, settings.data_affixes) THEN "DATA"
             ELSE IF any_affix(base_name, settings.channels_affixes) THEN "CHANNELS"
             ELSE IF any_affix(base_name, settings.normal_affixes) THEN "NORMAL"
             ELSE "MAX"

SettingsValues ==
    [use_automatic_texture_type : BOOLEAN,
     color_affixes : SUBSET Affixes, data_affixes : SUBSET Affixes,
     channels_affixes : SUBSET Affixes, normal_affixes : SUBSET Affixes]

InitInfer ==
    /\ \E settings \in SettingsValues, filePath \in FilePaths :
           infer = [pc |-> "ready", settings |-> settings,
                    filePath |-> filePath, result |-> "none"]
    /\ interp = Idle /\ raw = Idle /\ scan = Idle /\ dialog = Idle /\ window = Idle
    /\ CacheIdle
    /\ MipIdle
    /\ UiIdle

GetAutomaticTextureType ==
    /\ infer.pc = "ready"
    /\ infer' = [infer EXCEPT
           !.pc = "done",
           !.result = get_automatic_texture_type(infer.filePath, infer.settings)]
    /\ UNCHANGED <<cacheVars, mipVars, uiVars, interp, raw, scan, dialog, window>>

NextInfer == GetAutomaticTextureType

SpecInfer == InitInfer /\ [][NextInfer]_vars

\* a is a prefix or a suffix of name, by lengths
IsPrefixOrSuffix(a, name) ==
    \E k \in 0..Len(name) :
        \/ a = [i \in 1..k |-> name[i]]
        \/ a = [i \in 1..k |-> name[Len(name) - k + i]]

\* the file's name after its last separator, with the extension stripped
BaseName(filePath) == splitext_root(basename(filePath))

CategoryOrder == <<"COLOR", "DATA", "CHANNELS", "NORMAL">>

CategoryAffixes(settings, category) ==
    CASE category = "COLOR" -> settings.color_affixes
      [] category = "DATA" -> settings.data_affixes
      [] category = "CHANNELS" -> settings.channels_affixes
      [] category = "NORMAL" -> settings.normal_affixes

CategoryMatches(settings, filePath, category) ==
    \E a \in CategoryAffixes(settings, category) :
        IsPrefixOrSuffix(a, BaseName(filePath))

\* C11: get_automatic_texture_type returns MAX when automatic detection is
\* disabled; otherwise the first of COLOR, DATA, CHANNELS, NORMAL that has
\* an affix which is a prefix or a suffix of the base name, and MAX if no
\* category has one.
InferenceFirstMatchWins ==
    infer.pc = "done" =>
        LET matching == {i \in DOMAIN CategoryOrder :
                CategoryMatches(infer.settings, infer.filePath, CategoryOrder[i])}
        IN  /\ ~infer.settings.use_automatic_texture_type => infer.result = "MAX"
            /\ (infer.settings.use_automatic_texture_type /\ matching = {}) =>
                   infer.result = "MAX"
            /\ (infer.settings.use_automatic_texture_type /\ matching # {}) =>
                   \E i \in matching :
                       /\ \A j \in matching : i <= j
                       /\ infer.result = CategoryOrder[i]

\* a name with an extension that matches a color and a normal affix
InferenceFirstMatchWinsWitness ==
    /\ infer.pc = "done"
    /\ infer.settings.use_automatic_texture_type
    /\ BaseName(infer.filePath) # infer.filePath
    /\ CategoryMatches(infer.settings, infer.filePath, "COLOR")
    /\ CategoryMatches(infer.settings, infer.filePath, "NORMAL")
    /\ infer.result = "COLOR"

(***************************************************************************)
(* core.py: interpret_deltas.  Numbers are counted in thousandths, the     *)
(* precision of the channel weights: 9.0 is 9000 and 0.333 is 333.  A raw  *)
(* delta is a list of 3 or 4 channel values, or a single float (greyscale  *)
(* textures, normal maps).                                                 *)
(***************************************************************************)

MaxVal == 2

MaxDeltas == 2

Thousandths == 1000

List(ch) == [list |-> TRUE, ch |-> ch]

Float(v) == [list |-> FALSE, v |-> v]

\* x * w for x and w in thousandths; exact, x being a whole number of units
Times(x, w) == (x * w) \div Thousandths

ColorWeights4 == <<165, 540, 52, 243>>

ColorWeights3 == <<220, 720, 70>>

DataWeights4 == <<250, 250, 250, 250>>

DataWeights3 == <<333, 333, 333>>

\* the weighted sum of the first Len(weights) channels
WeightedSum(delta, weights) ==
    LET sum[k \in 0..Len(weights)] ==
            IF k = 0 THEN 0 ELSE sum[k - 1] + Times(delta.ch[k], weights[k])
    IN  sum[Len(weights)]

\* the same function with the weights of a 3-channel delta for every delta
interpret_deltas_ignoring_alpha(raw_deltas, texture_type) ==
    IF texture_type = "CHANNELS" \/ ~raw_deltas[1].list
    THEN raw_deltas
    ELSE IF texture_type = "NORMAL"
         THEN [i \in DOMAIN raw_deltas |-> Float(raw_deltas[i].ch[3])]
         ELSE LET channel_weights ==
                      IF texture_type = "COLOR" THEN ColorWeights3
                                                ELSE DataWeights3
              IN  [i \in DOMAIN raw_deltas |->
                      Float(WeightedSum(raw_deltas[i], channel_weights))]

interpret_deltas(raw_deltas, texture_type) ==
    IF texture_type = "CHANNELS" \/ ~raw_deltas[1].list
    THEN raw_deltas
    ELSE LET has_alpha_channel == Len(raw_deltas[1].ch) = 4
         IN  IF texture_type = "NORMAL"
             THEN [i \in DOMAIN raw_deltas |-> Float(raw_deltas[i].ch[3])]
             ELSE LET channel_weights ==
                          IF has_alpha_channel
                          THEN IF texture_type = "COLOR" THEN ColorWeights4
                                                         ELSE DataWeights4
                          ELSE IF texture_type = "COLOR" THEN ColorWeights3
                                                         ELSE DataWeights3
                  IN  [i \in DOMAIN raw_deltas |->
                          Float(WeightedSum(raw_deltas[i], channel_weights))]

Values == {v * Thousandths : v \in 0..MaxVal}

\* the deltas of the documented examples
ExampleDeltas ==
    {<<10 * Thousandths, 20 * Thousandths, 30 * Thousandths, 40 * Thousandths>>,
     <<9 * Thousandths, 9 * Thousandths, 9 * Thousandths>>}

FirstDeltas ==
    {List(ch) : ch \in ([1..3 -> Values] \cup [1..4 -> Values] \cup ExampleDeltas)}
        \cup {Float(v) : v \in Values}

\* the delta of the next mip: every value one unit higher
NextDelta(delta) ==
    IF delta.list
    THEN List([k \in DOMAIN delta.ch |-> delta.ch[k] + Thousandths])
    ELSE Float(delta.v + Thousandths)

\* a list of n deltas of one texture: as many channels in every delta
DeltaList(first, n) ==
    LET at[i \in 1..n] == IF i = 1 THEN first ELSE NextDelta(at[i - 1])
    IN  [i \in 1..n |-> at[i]]

InitInterp ==
    /\ \E first \in FirstDeltas, n \in 1..MaxDeltas, texture_type \in TextureType :
           interp = [pc |-> "ready", raw_deltas |-> DeltaList(first, n),
                     texture_type |-> texture_type, result |-> <<>>]
    /\ infer = Idle /\ raw = Idle /\ scan = Idle /\ dialog = Idle /\ window = Idle
    /\ CacheIdle
    /\ MipIdle
    /\ UiIdle

InterpretDeltas ==
    /\ interp.pc = "ready"
    /\ interp' = [interp EXCEPT
           !.pc = "done",
           !.result = interpret_deltas(interp.raw_deltas, interp.texture_type)]
    /\ UNCHANGED <<cacheVars, mipVars, uiVars, infer, raw, scan, dialog, window>>

NextInterp == InterpretDeltas

SpecInterp == InitInterp /\ [][NextInterp]_vars

\* the reference: the sum of channel times weight, written out
Reference3(ch, w) == Times(ch[1], w[1]) + Times(ch[2], w[2]) + Times(ch[3], w[3])

Reference4(ch, w) ==
    Times(ch[1], w[1]) + Times(ch[2], w[2]) + Times(ch[3], w[3]) + Times(ch[4], w[4])

ReferenceValue(delta, texture_type) ==
    IF Len(delta.ch) = 4
    THEN Reference4(delta.ch, IF texture_type = "COLOR"
                              THEN <<165, 540, 52, 243>> ELSE <<250, 250, 250, 250>>)
    ELSE Reference3(delta.ch, IF texture_type = "COLOR"
                              THEN <<220, 720, 70>> ELSE <<333, 333, 333>>)

\* C12: with CHANNELS, or with deltas that are already scalars, the input
\* is returned unchanged; with COLOR and DATA every 4-channel and every
\* 3-channel delta maps to its weighted sum with the documented weights,
\* one scalar per delta, in the same order.
InterpretMatchesReference ==
    interp.pc = "done" =>
        /\ (interp.texture_type = "CHANNELS" \/ ~interp.raw_deltas[1].list) =>
               interp.result = interp.raw_deltas
        /\ (interp.texture_type \in {"COLOR", "DATA"} /\ interp.raw_deltas[1].list) =>
               /\ Len(interp.result) = Len(interp.raw_deltas)
               /\ \A i \in DOMAIN interp.raw_deltas :
                      interp.result[i] =
                          Float(ReferenceValue(interp.raw_deltas[i], interp.texture_type))

\* the documented example: COLOR on [10, 20, 30, 40], followed by a second
\* delta, gives 10*0.165 + 20*0.54 + 30*0.052 + 40*0.243 first
InterpretMatchesReferenceWitness ==
    /\ interp.pc = "done"
    /\ interp.texture_type = "COLOR"
    /\ Len(interp.raw_deltas) = 2
    /\ interp.raw_deltas[1] = List(<<10000, 20000, 30000, 40000>>)
    /\ interp.result[1] = Float(1650 + 10800 + 1560 + 9720)
    /\ interp.result[2] # interp.result[1]

\* C13: DATA on a 3-channel delta whose channels all equal v returns
\* exactly v.
EqualWeightExact ==
    (interp.pc = "done" /\ interp.texture_type = "DATA"
        /\ interp.raw_deltas[1].list) =>
        \A i \in DOMAIN interp.raw_deltas :
            LET ch == interp.raw_deltas[i].ch
            IN  (Len(ch) = 3 /\ ch[1] = ch[2] /\ ch[2] = ch[3]) =>
                    interp.result[i] = Float(ch[1])

(***************************************************************************)
(* core.py: get_image_from_file, resize and calculate_raw_deltas.  An      *)
(* image is its shape and the resizes that made it from the file's image;  *)
(* a raw delta records the two images it compares.  A step that raises in  *)
(* the code yields an image or a result with the reason in `why`.          *)
(***************************************************************************)

MaxEdge == 16

\* what cv2.imread makes of the file: an array, None (not an image), or an
\* exception (image stays np.empty(0))
Files ==
    [decode : {"array"}, h : 1..MaxEdge, w : 1..MaxEdge, ch : {1, 3, 4}]
        \cup [decode : {"none", "raises"}, h : {0}, w : {0}, ch : {0}]

Raised(why) == [kind |-> "raised", why |-> why]

get_image_from_file(file) ==
    CASE file.decode = "array" ->
             [kind |-> "array", h |-> file.h, w |-> file.w, ch |-> file.ch,
              downs |-> 0, ups |-> 0]
      [] file.decode = "none" -> [kind |-> "None"]
      [] file.decode = "raises" -> [kind |-> "empty"]

\* image[:,:,:3] and the arithmetic on it: needs a three-dimensional array
transform_normal_map_to_vectors(image) ==
    IF image.kind = "array" /\ image.ch >= 3
    THEN [image EXCEPT !.ch = 3]
    ELSE Raised("not a colour array")

\* cvRound(n * 0.5): the nearest integer, a half going to the even one
cvRoundHalf(n) ==
    IF n % 2 = 0 THEN n \div 2
    ELSE IF ((n - 1) \div 2) % 2 = 0 THEN (n - 1) \div 2 ELSE (n + 1) \div 2

\* cv2.resize with fx = fy = scale; scale is 0.5 or 2.0
resize(texture, halve) ==
    IF halve
    THEN IF cvRoundHalf(texture.h) = 0 \/ cvRoundHalf(texture.w) = 0
         THEN Raised("empty size")
         ELSE [texture EXCEPT !.h = cvRoundHalf(texture.h),
                              !.w = cvRoundHalf(texture.w),
                              !.downs = texture.downs + 1]
    ELSE [texture EXCEPT !.h = 2 * texture.h, !.w = 2 * texture.w,
                         !.ups = texture.ups + 1]

\* one more than int(math.log2(n))
int_log2_and_one(n) == CHOOSE k \in 1..(n + 1) : 2^(k - 1) <= n /\ n < 2^k

\* int(math.log2(n)) for n >= 1
int_log2(n) == CHOOSE k \in 0..n : 2^k <= n /\ n < 2^(k + 1)

\* the image the next pass starts from, if it were the round-tripped one
advance_round_tripped(next_mip, smaller_mip) == smaller_mip

\* current_mip = next_mip
advance(next_mip, smaller_mip) == next_mip

\* the passes of the loop that remain, with the deltas found so far
RECURSIVE mip_loop(_, _, _, _)
mip_loop(current_mip, deltas, remaining, is_normal_map) ==
    IF remaining = 0 THEN [why |-> "none", deltas |-> deltas]
    ELSE LET next_mip == resize(current_mip, TRUE)
         IN  IF next_mip.kind = "raised"
             THEN [why |-> next_mip.why, deltas |-> deltas]
             ELSE LET smaller_mip == resize(next_mip, FALSE)
                  IN  IF smaller_mip.h # current_mip.h \/ smaller_mip.w # current_mip.w
                      THEN [why |-> "size mismatch", deltas |-> deltas]
                      ELSE mip_loop(advance(next_mip, smaller_mip),
                               Append(deltas,
                                   [list |-> ~is_normal_map /\ current_mip.ch > 1,
                                    of |-> current_mip, against |-> smaller_mip]),
                               remaining - 1, is_normal_map)

\* the body of the try statement
raw_deltas_body(file, b_all_mips, is_normal_map) ==
    LET image == get_image_from_file(file)
        current_mip == IF is_normal_map
                       THEN transform_normal_map_to_vectors(image) ELSE image
    IN  CASE current_mip.kind = "raised" -> [why |-> current_mip.why, deltas |-> <<>>]
          [] current_mip.kind = "None" -> [why |-> "no shape", deltas |-> <<>>]
          [] current_mip.kind = "empty" -> [why |-> "one dimension", deltas |-> <<>>]
          [] OTHER ->
              LET shorter_edge == IF current_mip.h < current_mip.w
                                  THEN current_mip.h ELSE current_mip.w
                  loops == IF b_all_mips THEN int_log2(shorter_edge) ELSE 1
              IN  mip_loop(current_mip, <<>>, loops, is_normal_map)

Fallback == <<List(<<0, 0, 0>>)>>

\* the same function with the opening of the file outside the try statement
calculate_raw_deltas_open_unguarded(file, b_all_mips, is_normal_map) ==
    LET body == raw_deltas_body(file, b_all_mips, is_normal_map)
    IN  IF body.why = "none"
        THEN [raised |-> FALSE, value |-> body.deltas, why |-> "none"]
        ELSE IF file.decode # "array"
             THEN [raised |-> TRUE, value |-> <<>>, why |-> body.why]
             ELSE [raised |-> FALSE, value |-> Fallback, why |-> body.why]

calculate_raw_deltas(file, b_all_mips, is_normal_map) ==
    LET body == raw_deltas_body(file, b_all_mips, is_normal_map)
    IN  IF body.why = "none"
        THEN [raised |-> FALSE, value |-> body.deltas, why |-> "none"]
        ELSE [raised |-> FALSE, value |-> Fallback, why |-> body.why]

InitRaw ==
    /\ \E file \in Files, b_all_mips \in BOOLEAN, is_normal_map \in BOOLEAN :
           raw = [pc |-> "ready", file |-> file, b_all_mips |-> b_all_mips,
                  is_normal_map |-> is_normal_map,
                  result |-> [raised |-> FALSE, value |-> <<>>, why |-> "none"]]
    /\ infer = Idle /\ interp = Idle /\ scan = Idle /\ dialog = Idle /\ window = Idle
    /\ CacheIdle
    /\ MipIdle
    /\ UiIdle

CalculateRawDeltas ==
    /\ raw.pc = "ready"
    /\ raw' = [raw EXCEPT
           !.pc = "done",
           !.result = calculate_raw_deltas(raw.file, raw.b_all_mips, raw.is_normal_map)]
    /\ UNCHANGED <<cacheVars, mipVars, uiVars, infer, interp, scan, dialog, window>>

NextRaw == CalculateRawDeltas

SpecRaw == InitRaw /\ [][NextRaw]_vars

\* C14: calculate_raw_deltas never raises; on any failure it returns the
\* single-element fallback [[0.0, 0.0, 0.0]], with is_normal_map false and
\* true.
RawDeltasNeverRaise ==
    raw.pc = "done" =>
        /\ ~raw.result.raised
        /\ raw.result.why # "none" => raw.result.value = <<List(<<0, 0, 0>>)>>

\* a 6 by 6 texture with all mips: the first delta is found, then the
\* 3 by 3 mip comes back from its round trip as 4 by 4
RawDeltasNeverRaiseWitness ==
    /\ raw.pc = "done"
    /\ raw.file.h = 6 /\ raw.file.w = 6 /\ raw.b_all_mips
    /\ raw.result.why = "size mismatch"
    /\ raw.result.value = <<List(<<0, 0, 0>>)>>

\* n plain halvings of the file's image
IsMip(image, n) == image.downs = n /\ image.ups = 0

\* C15: on success the result has floor(log2(min(height, width))) deltas
\* with all mips and one without; delta n compares mip n with the round
\* trip of mip n+1, mip n+1 being the plain downsample of mip n.
RawDeltasLength ==
    (raw.pc = "done" /\ raw.result.why = "none") =>
        LET shorter == IF raw.file.h < raw.file.w THEN raw.file.h ELSE raw.file.w
            deltas == raw.result.value
        IN  /\ raw.b_all_mips =>
                   /\ 2^Len(deltas) <= shorter
                   /\ shorter < 2^(Len(deltas) + 1)
            /\ ~raw.b_all_mips => Len(deltas) = 1
            /\ \A n \in DOMAIN deltas :
                   /\ IsMip(deltas[n].of, n - 1)
                   /\ deltas[n].against.downs = n /\ deltas[n].against.ups = 1
                   /\ deltas[n].against.h = deltas[n].of.h
                   /\ deltas[n].against.w = deltas[n].of.w

\* an 8 by 4 texture with all mips: two deltas
RawDeltasLengthWitness ==
    /\ raw.pc = "done" /\ raw.result.why = "none"
    /\ raw.b_all_mips
    /\ raw.file.h = 8 /\ raw.file.w = 4
    /\ Len(raw.result.value) = 2
    /\ IsMip(raw.result.value[2].of, 1)

(***************************************************************************)
(* browser.py: FileBrowser.process_current_directory, the batch scan.  The *)
(* handler runs from the click to the written report; QProgressDialog      *)
(* processes events inside setValue, so a click on Cancel arrives between  *)
(* two passes of its loop.  A file is its suffix, the size of its pixmap,  *)
(* its Mip0 information and the type inferred from its name; its path is   *)
(* its place under the root.  The information is counted in thirds of a    *)
(* thousandth, so that the three decimals of the report round it.          *)
(***************************************************************************)

MaxFiles == 4

MaxInfo == 1

SUPPORTEDFORMATS ==
    {<<"*", e>> : e \in {".bmp", ".dib", ".jpeg", ".jpg", ".jpe", ".jp2", ".png",
                         ".webp", ".pbm", ".pgm", ".ppm", ".pxm", ".pnm", ".sr",
                         ".ras", ".tiff", ".tif", ".tga", ".pic"}}

Platforms == {"Windows", "Linux"}

\* a text file, an earlier report, an image of 6 by 6 pixels, images of 4
\* by 4 pixels; QPixmap loads no picture from the first two, the images
\* have three colour channels
ScanFiles ==
    [suffix : {<<".txt">>, <<".csv">>}, size : {<<0, 0>>}, info : {0},
     inferred : {"MAX"}, channels : {0}]
        \cup [suffix : {<<".png">>}, size : {<<6, 6>>}, info : {0},
              inferred : {"MAX"}, channels : {3}]
        \cup [suffix : {<<".png">>}, size : {<<4, 4>>},
              info : {2 * v : v \in 0..MaxInfo}, inferred : {"CHANNELS", "NORMAL"},
              channels : {3}]

Directories == UNION {[1..n -> ScanFiles] : n \in 0..MaxFiles}

\* handle_search_term_changed with an empty search bar: visible_formats is
\* another name of the set formats, and add changes that set
handle_search_term_changed(formats, search_text) ==
    IF search_text = "" THEN formats \cup {<<"*", ".csv">>} ELSE formats

\* the formats p.suffix is looked up in
supported_formats(platform, formats) ==
    IF platform = "Windows" THEN formats ELSE {Tail(format) : format \in formats}

\* the paths of Path(path).glob("**/*") that pass the filter, in their order
RECURSIVE glob_files(_, _, _)
glob_files(dir, supported, p) ==
    IF p > Len(dir) THEN <<>>
    ELSE IF dir[p].suffix \in supported
         THEN <<p>> \o glob_files(dir, supported, p + 1)
         ELSE glob_files(dir, supported, p + 1)

\* the comparison of two entries by sorted(): lists compare by their first
\* element, then by the following ones
entry_less(a, b) == a[1] < b[1] \/ (a[1] = b[1] /\ a[2] < b[2])

\* the table as it was collected
sorted_as_collected(results_table) == results_table

RECURSIVE sorted(_)
sorted(results_table) ==
    IF results_table = <<>> THEN <<>>
    ELSE LET least == CHOOSE i \in DOMAIN results_table :
                          \A j \in DOMAIN results_table :
                              i = j \/ entry_less(results_table[i], results_table[j])
                                    \/ results_table[i] = results_table[j]
         IN  <<results_table[least]>> \o
                 sorted([k \in 1..(Len(results_table) - 1) |->
                            IF k < least THEN results_table[k]
                                         ELSE results_table[k + 1]])

\* "{:.3f}".format: the nearest thousandth of a number of thirds
format_3f(info) == (info + 1) \div 3

Header == <<"Mip0 Information", "Filepath", "Dimensions", "has Alpha", "Mode">>

\* the rows handed to csv.writer
csv_rows(results_table) ==
    LET results_table_sorted == sorted(results_table)
    IN  <<Header>> \o
            [k \in DOMAIN results_table_sorted |->
                [results_table_sorted[k] EXCEPT ![1] = format_3f(@)]]

\* whether calculate_raw_deltas gives one list of numbers per delta: it does
\* for an image with colour channels, unless it is told of a normal map
raw_deltas_are_lists(file, is_normal_map) == ~is_normal_map /\ file.channels > 1

\* the entry of the file at path p; an inferred MAX or CHANNELS counts as DATA
new_entry(dir, p) ==
    LET texture_type == IF dir[p].inferred \in {"MAX", "CHANNELS"}
                        THEN "DATA" ELSE dir[p].inferred
    IN  <<dir[p].info, p, dir[p].size, FALSE, texture_type>>

\* never leaving the loop early
breaks_never(was_canceled) == FALSE

\* if progress.wasCanceled(): break
breaks(was_canceled) == was_canceled

NoReport == [written |-> FALSE, rows |-> <<>>]

\* the signal and the button restored only by a write that succeeded
after_try_if_written(write_fails) == ~write_fails

\* the statements after the try block run whether or not the write failed
after_try(write_fails) == TRUE

InitScan ==
    /\ \E dir \in Directories, platform \in Platforms :
           scan = [pc |-> "ready", dir |-> dir, platform |-> platform,
                   formats |-> handle_search_term_changed(SUPPORTEDFORMATS, ""),
                   files |-> <<>>, i |-> 0,
                   results_table |-> <<>>, shown_once |-> FALSE,
                   canceled |-> FALSE, canceled_after |-> -1,
                   processed |-> 0, checks |-> 0, write_failed |-> FALSE,
                   csv |-> NoReport, btn_enabled |-> TRUE,
                   btn_text |-> "Scan Directory", attention |-> 0]
    /\ infer = Idle /\ interp = Idle /\ raw = Idle /\ dialog = Idle /\ window = Idle
    /\ CacheIdle
    /\ MipIdle
    /\ UiIdle

\* the click on the button, up to the loop
StartScan ==
    /\ scan.pc = "ready"
    /\ scan.btn_enabled
    /\ scan' = [scan EXCEPT
           !.pc = "loop",
           !.btn_enabled = FALSE,
           !.btn_text = "---",
           !.files = glob_files(scan.dir, supported_formats(scan.platform, scan.formats), 1)]
    /\ UNCHANGED <<cacheVars, mipVars, uiVars, infer, interp, raw, dialog, window>>

\* one pass of the loop.  setValue(i) processes events once the dialog is
\* shown, and the user may click Cancel then (click); before that it may
\* show the dialog, not on the first call (need_show).  The second
\* setValue(i) repeats the value and returns at once.
ScanFile(click, need_show) ==
    /\ scan.pc = "loop"
    /\ scan.i < Len(scan.files)
    /\ click => scan.shown_once /\ ~scan.canceled
    /\ need_show => ~scan.shown_once /\ scan.i > 0
    /\ LET p == scan.files[scan.i + 1]
           was_canceled == scan.canceled \/ click
           mappable_file == is_mip_mappable(scan.dir[p].size[1], scan.dir[p].size[2])
       IN  scan' = [scan EXCEPT
               !.shown_once = @ \/ need_show,
               !.canceled = was_canceled,
               !.canceled_after = IF click THEN scan.processed ELSE @,
               !.results_table = IF mappable_file
                                 THEN Append(@, new_entry(scan.dir, p)) ELSE @,
               !.processed = @ + 1,
               !.checks = @ + 1,
               !.pc = IF breaks(was_canceled) THEN "write" ELSE "loop",
               !.i = IF breaks(was_canceled) THEN @ ELSE @ + 1]
    /\ UNCHANGED <<cacheVars, mipVars, uiVars, infer, interp, raw, dialog, window>>

\* after the loop: setValue(len(files)), the sorted table, the report (the
\* write may fail), the signal and the button
WriteReport(click, write_fails) ==
    /\ \/ scan.pc = "write"
       \/ scan.pc = "loop" /\ scan.i >= Len(scan.files)
    /\ click => scan.shown_once /\ ~scan.canceled
    /\ scan' = [scan EXCEPT
           !.pc = "done",
           !.canceled = @ \/ click,
           !.canceled_after = IF click THEN scan.processed ELSE @,
           !.write_failed = write_fails,
           !.csv = IF write_fails THEN NoReport
                   ELSE [written |-> TRUE, rows |-> csv_rows(scan.results_table)],
           !.attention = IF after_try(write_fails) THEN @ + 1 ELSE @,
           !.btn_text = IF after_try(write_fails) THEN "Scan Directory" ELSE @,
           !.btn_enabled = after_try(write_fails)]
    /\ UNCHANGED <<cacheVars, mipVars, uiVars, infer, interp, raw, dialog, window>>

NextScan ==
    \/ StartScan
    \/ \E click \in BOOLEAN, need_show \in BOOLEAN : ScanFile(click, need_show)
    \/ \E click \in BOOLEAN, write_fails \in BOOLEAN : WriteReport(click, write_fails)

SpecScan == InitScan /\ [][NextScan]_vars

\* the paths of the files the loop has handled
ProcessedPaths == {scan.files[k] : k \in 1..scan.processed}

\* a pixmap whose width and height are powers of two greater than 3
MipMappableFile(file) ==
    /\ IsPowerOfTwo(file.size[1]) /\ IsPowerOfTwo(file.size[2])
    /\ file.size[1] > 3 /\ file.size[2] > 3

\* the report: the header, then one row for each handled file that is
\* mip-mappable and no other row, ascending by the Mip0 information
ReportOfProcessed ==
    LET rows == scan.csv.rows
    IN  /\ Len(rows) >= 1
        /\ rows[1] = <<"Mip0 Information", "Filepath", "Dimensions", "has Alpha", "Mode">>
        /\ {rows[k][2] : k \in 2..Len(rows)} =
               {p \in ProcessedPaths : MipMappableFile(scan.dir[p])}
        /\ \A j, k \in 2..Len(rows) : rows[j][2] = rows[k][2] => j = k
        /\ \A k \in 2..(Len(rows) - 1) :
               /\ scan.dir[rows[k][2]].info <= scan.dir[rows[k + 1][2]].info
               /\ rows[k][1] <= rows[k + 1][1]

\* C16: the CSV written by process_current_directory has the fixed header
\* row first, then exactly one data row per processed file that is
\* mip-mappable and none for a file that is not, the data rows ascending by
\* the numeric Mip0 information.
ScanReportSorted ==
    scan.csv.written => ReportOfProcessed

\* four supported files, one not mip-mappable: three data rows, the rows of
\* the second and the first file exchanged
ScanReportSortedWitness ==
    /\ scan.pc = "done" /\ scan.csv.written
    /\ scan.processed = 4
    /\ Len(scan.csv.rows) = 4
    /\ scan.csv.rows[2][2] = 2
    /\ scan.csv.rows[3][2] = 1
    /\ scan.csv.rows[2][1] < scan.csv.rows[3][1]

\* a suffix of one of the supported image formats
SupportedSuffix(suffix) ==
    \E format \in SUPPORTEDFORMATS : format = <<"*">> \o suffix

\* C17: on Windows and elsewhere the scan enumerates every file under the
\* root whose extension is a supported image format, so a directory with
\* supported mip-mappable images never gives a report without data rows.
ScanEnumeratesSupported ==
    scan.pc \in {"loop", "write", "done"} =>
        /\ {scan.files[k] : k \in DOMAIN scan.files} =
               {p \in DOMAIN scan.dir : SupportedSuffix(scan.dir[p].suffix)}
        /\ (/\ scan.pc = "done" /\ scan.csv.written /\ ~scan.canceled
            /\ \E p \in DOMAIN scan.dir :
                   SupportedSuffix(scan.dir[p].suffix) /\ MipMappableFile(scan.dir[p]))
               => Len(scan.csv.rows) > 1

\* C18 as stated: when the user cancels after k files have been
\* processed, no further file is processed.
ScanStopsAtCancel ==
    (scan.pc = "done" /\ scan.canceled_after >= 0) =>
        scan.processed = scan.canceled_after

\* C18: cancellation is checked once per pass, after the file of the pass;
\* a click on Cancel that arrives when k files have been processed lets
\* the pass that has begun finish its file and no other file follows, and
\* the report is written as after a full scan, with the rows of the files
\* processed.
ScanStopsAfterCurrentFile ==
    /\ scan.pc # "idle" => scan.checks = scan.processed
    /\ (scan.pc = "done" /\ scan.canceled_after >= 0) =>
           /\ scan.processed <= scan.canceled_after + 1
           /\ scan.canceled_after < Len(scan.files) =>
                  scan.processed = scan.canceled_after + 1
           /\ scan.csv.written = ~scan.write_failed
           /\ scan.csv.written => ReportOfProcessed

\* Cancel clicked after two of four files: the third is processed, the
\* fourth is not, and the report has three data rows
ScanStopsAfterCurrentFileWitness ==
    /\ scan.pc = "done"
    /\ Len(scan.files) = 4
    /\ scan.canceled_after = 2
    /\ scan.processed = 3
    /\ scan.csv.written
    /\ Len(scan.csv.rows) = 4

(***************************************************************************)
(* MipExplorer.py: WorkModeSettingsDialog.  The four affix fields are      *)
(* built and read by the same code; the model follows the color field.  A  *)
(* text is a sequence of characters, "a" standing for any character that   *)
(* is neither a space nor a comma.                                         *)
(***************************************************************************)

MaxTextLen == 4

MaxFieldLen == 6

Texts == UNION {[1..n -> {"a", " ", ","}] : n \in 0..MaxTextLen}

\* str.split(","): a text without comma is one piece, the empty one too
RECURSIVE split(_)
split(text) ==
    IF \A i \in DOMAIN text : text[i] # ","
    THEN <<text>>
    ELSE LET i == CHOOSE i \in DOMAIN text :
                      text[i] = "," /\ \A j \in 1..(i - 1) : text[j] # ","
         IN  <<SubSeq(text, 1, i - 1)>> \o split(SubSeq(text, i + 1, Len(text)))

\* ", ".join(affixes)
RECURSIVE join(_)
join(affixes) ==
    IF affixes = <<>> THEN <<>>
    ELSE IF Len(affixes) = 1 THEN affixes[1]
    ELSE affixes[1] \o <<",", " ">> \o join(Tail(affixes))

\* the loop calls affix.strip() and drops what it returns; the list keeps
\* every affix that is not the empty string
clean_affixes_list(affixes) ==
    LET NotEmpty(affix) == affix # <<>>
    IN  SelectSeq(affixes, NotEmpty)

InitDialog ==
    /\ dialog = [pc |-> "closed", color_affixes |-> <<>>,
                 use_automatic_work_mode |-> FALSE,
                 saved |-> [color_affixes |-> <<>>, use_automatic_work_mode |-> FALSE],
                 le_color_affixes |-> <<>>, chk_automatic_work_mode |-> FALSE,
                 edited |-> FALSE, before |-> <<>>]
    /\ infer = Idle /\ interp = Idle /\ raw = Idle /\ scan = Idle /\ window = Idle
    /\ CacheIdle
    /\ MipIdle
    /\ UiIdle

\* WorkModeSettingsDialog(): the fields show the settings
OpenDialog ==
    /\ dialog.pc # "open"
    /\ Len(join(dialog.color_affixes)) <= MaxFieldLen
    /\ dialog' = [dialog EXCEPT
           !.pc = "open",
           !.le_color_affixes = join(dialog.color_affixes),
           !.chk_automatic_work_mode = dialog.use_automatic_work_mode,
           !.edited = FALSE,
           !.before = dialog.color_affixes]
    /\ UNCHANGED <<cacheVars, mipVars, uiVars, infer, interp, raw, scan, window>>

\* the user types a text into the field
EditText(text) ==
    /\ dialog.pc = "open"
    /\ text # dialog.le_color_affixes
    /\ dialog' = [dialog EXCEPT !.le_color_affixes = text, !.edited = TRUE]
    /\ UNCHANGED <<cacheVars, mipVars, uiVars, infer, interp, raw, scan, window>>

\* the user sets or clears the checkbox
ToggleCheckbox ==
    /\ dialog.pc = "open"
    /\ dialog' = [dialog EXCEPT !.chk_automatic_work_mode = ~@, !.edited = TRUE]
    /\ UNCHANGED <<cacheVars, mipVars, uiVars, infer, interp, raw, scan, window>>

\* accept(): the lists, the flag, Settings.save_settings()
Accept ==
    /\ dialog.pc = "open"
    /\ LET affixes == clean_affixes_list(split(dialog.le_color_affixes))
       IN  dialog' = [dialog EXCEPT
               !.pc = "accepted",
               !.color_affixes = affixes,
               !.use_automatic_work_mode = dialog.chk_automatic_work_mode,
               !.saved = [color_affixes |-> affixes,
                          use_automatic_work_mode |-> dialog.chk_automatic_work_mode]]
    /\ UNCHANGED <<cacheVars, mipVars, uiVars, infer, interp, raw, scan, window>>

\* reject(): nothing is written
Reject ==
    /\ dialog.pc = "open"
    /\ dialog' = [dialog EXCEPT !.pc = "closed"]
    /\ UNCHANGED <<cacheVars, mipVars, uiVars, infer, interp, raw, scan, window>>

NextDialog ==
    \/ OpenDialog
    \/ \E text \in Texts : EditText(text)
    \/ ToggleCheckbox
    \/ Accept
    \/ Reject

SpecDialog == InitDialog /\ [][NextDialog]_vars

\* C19: after accept the affix list has no entry with leading or trailing
\* whitespace and no empty entry, whatever the field text, and the settings
\* are saved; accepting without editing leaves the list unchanged.
AcceptCleansAffixes ==
    dialog.pc = "accepted" =>
        /\ \A k \in DOMAIN dialog.color_affixes :
               LET affix == dialog.color_affixes[k]
               IN  affix # <<>> /\ affix[1] # " " /\ affix[Len(affix)] # " "
        /\ dialog.saved.color_affixes = dialog.color_affixes
        /\ ~dialog.edited => dialog.color_affixes = dialog.before

(***************************************************************************)
(* MipExplorer.py: MainWindow, the handlers that end in handle_update.  A  *)
(* signal hands its arguments to a slot that has parameters for them:      *)
(* currentIndexChanged(int) is connected to handle_update(force_update =   *)
(* False), clicked(bool) to force_update(), which has none.  The files     *)
(* that can be selected are mip-mappable textures.                         *)
(***************************************************************************)

\* a Python bool and a Python int, as handle_update receives them
BoolArg(b) == [type |-> "bool", value |-> IF b THEN 1 ELSE 0]

IntArg(n) == [type |-> "int", value |-> n]

\* `not force_update` is False for True and for every integer but 0
truth(arg) == arg.value # 0

\* WorkMode(self.cmb_work_mode.currentIndex())
WorkModeOfIndex(index) == <<"COLOR", "DATA", "CHANNELS", "NORMAL">>[index + 1]

\* WorkMode.value
IndexOfWorkMode(work_mode) ==
    CHOOSE index \in 0..3 : WorkModeOfIndex(index) = work_mode

\* handle_update(force_update): nothing without a selected file; else the
\* plot values of the selected file in the mode of the selector
handle_update(force_update, trigger, selected, index, file, mt, dir) ==
    IF selected = 0
    THEN [file |-> file, calls |-> <<>>, ops |-> <<>>]
    ELSE LET r == get_plot_values(selected, WorkModeOfIndex(index),
                                  truth(force_update), file, mt, dir)
         IN  [file |-> r.file,
              calls |-> <<[trigger |-> trigger, force_update |-> force_update,
                           bypass |-> truth(force_update),
                           consulted |-> ~truth(force_update),
                           work_mode |-> WorkModeOfIndex(index)]>>,
              ops |-> <<PlotOp(selected, WorkModeOfIndex(index),
                               truth(force_update), r)>>]

InitWindow ==
    /\ dirExists \in BOOLEAN
    /\ cacheFile \in EarlierFiles
    /\ cacheFile.exists => dirExists
    /\ mtime = [p \in AllPaths |-> 0]
    /\ pc = "start"
    /\ last = NoOp
    /\ window = [index |-> 0, selected |-> 0, handler |-> "none", calls |-> <<>>]
    /\ infer = Idle /\ interp = Idle /\ raw = Idle /\ scan = Idle /\ dialog = Idle
    /\ MipIdle
    /\ UiIdle

\* a handler that calls handle_update once
UpdateOnce(handler, trigger, force_update, index) ==
    /\ pc = "running"
    /\ LET u == handle_update(force_update, trigger, window.selected, index,
                              cacheFile, mtime, dirExists)
       IN  /\ cacheFile' = u.file
           /\ last' = IF u.ops = <<>> THEN last ELSE u.ops[1]
           /\ window' = [window EXCEPT !.index = index, !.handler = handler,
                                       !.calls = u.calls]
    /\ UNCHANGED <<dirExists, mtime, pc, mipVars, uiVars, infer, interp, raw, scan, dialog>>

\* the user picks another entry of the type selector: currentIndexChanged
SelectWorkMode(index) ==
    /\ index # window.index
    /\ UpdateOnce("type selected", "currentIndexChanged", IntArg(index), index)

\* the Refresh button: clicked -> force_update()
ClickRefresh ==
    /\ pc = "running"
    /\ UpdateOnce("refresh", "force_update", BoolArg(TRUE), window.index)

\* the R key: eventFilter -> force_update()
PressR ==
    /\ pc = "running"
    /\ UpdateOnce("shortcut", "force_update", BoolArg(TRUE), window.index)

\* the user selects a file: handle_file_changed.  automatic_work_mode is
\* what get_automatic_work_mode makes of the file name; setCurrentIndex
\* emits currentIndexChanged when it changes the index.
HandleFileChanged(filepath, automatic_work_mode) ==
    /\ pc = "running"
    /\ LET index == IF automatic_work_mode = "MAX" THEN window.index
                    ELSE IndexOfWorkMode(automatic_work_mode)
           first == IF index # window.index
                    THEN handle_update(IntArg(index), "currentIndexChanged",
                                       filepath, index, cacheFile, mtime, dirExists)
                    ELSE [file |-> cacheFile, calls |-> <<>>, ops |-> <<>>]
           second == handle_update(BoolArg(FALSE), "handle_file_changed",
                                   filepath, index, first.file, mtime, dirExists)
       IN  /\ cacheFile' = second.file
           /\ last' = second.ops[1]
           /\ window' = [index |-> index, selected |-> filepath,
                         handler |-> "file changed",
                         calls |-> first.calls \o second.calls]
    /\ UNCHANGED <<dirExists, mtime, pc, mipVars, uiVars, infer, interp, raw, scan, dialog>>

NextWindow ==
    \/ EnsureCacheVersion
    \/ \E index \in 0..3 : SelectWorkMode(index)
    \/ ClickRefresh
    \/ PressR
    \/ \E p \in Paths, t \in TextureType : HandleFileChanged(p, t)

SpecWindow == InitWindow /\ [][NextWindow]_vars

\* C20: when the user changes the type selector to Color, Data, Channels
\* or Normal, the update that follows is made with force-refresh off: it
\* consults the cache before computing.  Only the Refresh control and the
\* R key force a bypass of the cache.
TypeChangeConsultsCache ==
    \A k \in DOMAIN window.calls :
        /\ window.handler = "type selected" => window.calls[k].consulted
        /\ window.calls[k].bypass => window.handler \in {"refresh", "shortcut"}

(***************************************************************************)
(* browser.py: FileBrowser, navigation and icons.  The file system is a    *)
(* root directory with one file and one directory, which holds one file;   *)
(* "/x" does not exist and "" is the root path of a new QFileSystemModel.  *)
(***************************************************************************)

FsDirs == {"/", "/d"}

FsFiles == {"/a.png", "/d/b.png"}

AddressTexts == FsDirs \cup FsFiles \cup {"/x"}

\* os.path.dirname, also str(Path(p).parent) for the paths of the model
dirname(p) ==
    CASE p = "/d/b.png" -> "/d"
      [] p \in {"/a.png", "/d", "/", "/x"} -> "/"
      [] OTHER -> ""

\* jump_to_path.  For a file the list root is what setRootPath makes of the
\* file's own path: Qt takes it as the root (takes_file) or keeps the root
\* it has; the parent computed after that is not used.
jump_to_path(target_path, b, takes_file) ==
    IF target_path \in FsFiles
    THEN [b EXCEPT !.root = IF takes_file THEN target_path ELSE @]
    ELSE IF target_path \in FsDirs
         THEN [b EXCEPT !.le_address = target_path, !.tree = target_path,
                        !.root = target_path]
         ELSE b

InitBrowser ==
    /\ browser = [le_address |-> "", tree |-> "", root |-> "",
                  icon_size |-> 0, use_thumbnails |-> FALSE, cached_icons |-> {},
                  last |-> [op |-> "none", target |-> "", before |-> "",
                            cached_before |-> {}, returned |-> "none"]]
    /\ UnitsIdle
    /\ viewer = Idle /\ results = Idle /\ dark = Idle
    /\ CacheIdle
    /\ MipIdle

\* the last operation of the browser, with the list root it found
BrowserOp(op, target) ==
    [op |-> op, target |-> target, before |-> browser.root,
     cached_before |-> browser.cached_icons, returned |-> "none"]

\* the user edits the address field: handle_address_changed
HandleAddressChanged(text, takes_file) ==
    /\ ~takes_file \/ text \in FsFiles
    /\ LET typed == [browser EXCEPT !.le_address = text]
       IN  browser' = IF text \notin FsDirs \cup FsFiles
                      THEN [typed EXCEPT !.last = BrowserOp("address", text)]
                      ELSE [jump_to_path(text, typed, takes_file)
                                EXCEPT !.last = BrowserOp("jump", text)]
    /\ UNCHANGED <<cacheVars, mipVars, unitVars, viewer, results, dark>>

\* a folder is picked in the tree: handle_selected_folder_changed
HandleSelectedFolderChanged(path) ==
    /\ browser' = [browser EXCEPT !.tree = path, !.root = path, !.le_address = path,
                                  !.last = BrowserOp("folder", path)]
    /\ UNCHANGED <<cacheVars, mipVars, unitVars, viewer, results, dark>>

\* the Left key: open_parent_directory
OpenParentDirectory ==
    /\ browser' = [jump_to_path(dirname(browser.root), browser, FALSE)
                       EXCEPT !.last = BrowserOp("jump", dirname(browser.root))]
    /\ UNCHANGED <<cacheVars, mipVars, unitVars, viewer, results, dark>>

\* the cache of an icon provider made anew with the file model
new_icon_provider(cached_icons) == {}

\* init_file_model: file_model.setIconProvider(self.icon_provider), the
\* provider made in __init__, with the icons it has cached
set_icon_provider(cached_icons) == cached_icons

\* the icon-size selector: handle_icon_size_changed, with a new file model
\* that is sent back to the directory of the old one
HandleIconSizeChanged(current_index, takes_file) ==
    /\ current_index # browser.icon_size
    /\ ~takes_file \/ browser.root \in FsFiles
    /\ LET current_directory == browser.root
           fresh == [browser EXCEPT !.icon_size = current_index,
                                    !.use_thumbnails = current_index # 0,
                                    !.cached_icons = set_icon_provider(@),
                                    !.root = ""]
       IN  browser' = [jump_to_path(current_directory, fresh, takes_file)
                           EXCEPT !.last = BrowserOp("icon size", current_directory)]
    /\ UNCHANGED <<cacheVars, mipVars, unitVars, viewer, results, dark>>

\* the list asks for the icon of a file it shows: IconProvider.icon
Icon(filename) ==
    /\ dirname(filename) = browser.root
    /\ browser' = [browser EXCEPT
           !.cached_icons = IF browser.use_thumbnails THEN @ \cup {filename} ELSE @,
           !.last = [BrowserOp("icon", filename) EXCEPT
                        !.returned = IF ~browser.use_thumbnails THEN "png_icon"
                                     ELSE IF filename \in browser.cached_icons
                                          THEN "cached thumbnail"
                                          ELSE "new thumbnail"]]
    /\ UNCHANGED <<cacheVars, mipVars, unitVars, viewer, results, dark>>

NextBrowser ==
    \/ \E text \in AddressTexts, takes_file \in BOOLEAN :
           HandleAddressChanged(text, takes_file)
    \/ \E path \in FsDirs : HandleSelectedFolderChanged(path)
    \/ OpenParentDirectory
    \/ \E current_index \in 0..2, takes_file \in BOOLEAN :
           HandleIconSizeChanged(current_index, takes_file)
    \/ \E filename \in FsFiles : Icon(filename)

SpecBrowser == InitBrowser /\ [][NextBrowser]_vars

\* C21: jump_to_path on an existing file sets the list root to the file's
\* parent directory, not to the file; on an existing directory it sets the
\* address field, the tree selection and the list root to that directory;
\* on a path that does not exist it changes nothing.
JumpToPathSetsRoot ==
    /\ (browser.last.op = "jump" /\ browser.last.target \in FsFiles) =>
           browser.root = dirname(browser.last.target)
    /\ (browser.last.op = "jump" /\ browser.last.target \in FsDirs) =>
           /\ browser.le_address = browser.last.target
           /\ browser.tree = browser.last.target
           /\ browser.root = browser.last.target
    /\ browser.last.op = "address" => browser.root = browser.last.before

\* C25 as stated: switching the icon-size mode leaves the icon provider's
\* thumbnail cache empty.
IconSizeSwitchEmptiesCache ==
    browser.last.op = "icon size" => browser.cached_icons = {}

\* C25: switching the icon-size mode makes a new file-list model with the
\* icon provider it had, so the thumbnail cache is as it was before the
\* switch, and a thumbnail memoized before the switch is returned again in
\* a thumbnail mode.
IconSizeSwitchKeepsCache ==
    /\ browser.last.op = "icon size" =>
           browser.cached_icons = browser.last.cached_before
    /\ (/\ browser.last.op = "icon" /\ browser.use_thumbnails
        /\ browser.last.target \in browser.last.cached_before) =>
           browser.last.returned = "cached thumbnail"

\* a switch between Medium and Big with a thumbnail in the cache
IconSizeSwitchKeepsCacheWitness ==
    /\ browser.last.op = "icon size"
    /\ browser.use_thumbnails
    /\ browser.root = "/d"
    /\ browser.cached_icons = {"/d/b.png"}

(***************************************************************************)
(* textureviewer.py: TextureViewer, the mip selector and the zoom slider.  *)
(* The textures shown are mip-mappable; the viewport takes one of two    *)
(* sizes and the wheel turns by eight notches at a time.                    *)
(***************************************************************************)

SliderMinimum == 100

SliderMaximum == 1000

SliderValue == 300

\* sizes of the pixmaps handed to update_pixmap
PixmapSizes == {<<4, 4>>, <<8, 4>>, <<32, 16>>}

\* width and height of scrl_preview, and the width of its scroll bar
Viewports == {<<60, 40, 15>>, <<1500, 1200, 15>>}

\* event.angleDelta().y(), in eighths of a degree
AngleDeltas == {-960, 960}

\* num_mips = int(math.log2(shorter_side)), the number of entries put into
\* the selector
num_mips_of(size) == int_log2(IF size[1] < size[2] THEN size[1] ELSE size[2])

\* QComboBox.setCurrentIndex: an index that names no entry leaves the box
\* without a current entry, which is index -1
set_current_index(index, count) ==
    IF 0 <= index /\ index < count THEN index ELSE -1

\* QSlider.setValue: the value is brought into the range
set_value(value, minimum, maximum) ==
    IF value < minimum THEN minimum
    ELSE IF value > maximum THEN maximum ELSE value

\* the maximum left as it is
keep_maximum(maximum, target) == maximum

\* if self.sldr_size.maximum() < target: self.sldr_size.setMaximum(target)
widen_maximum(maximum, target) == IF maximum < target THEN target ELSE maximum

\* if self.sldr_size.minimum() > target: self.sldr_size.setMinimum(target)
widen_minimum(minimum, target) == IF minimum > target THEN target ELSE minimum

InitViewer ==
    /\ viewer = [original_texture_size |-> <<0, 0>>, displayed_mip |-> 0,
                 count |-> 0, index |-> -1, dimensions |-> <<0, 0>>,
                 minimum |-> SliderMinimum, maximum |-> SliderMaximum,
                 value |-> SliderValue, texture_size |-> SliderValue,
                 last |-> [op |-> "none", target |-> 0, previous |-> 0,
                           minimum |-> SliderMinimum, maximum |-> SliderMaximum]]
    /\ UnitsIdle
    /\ browser = Idle /\ results = Idle /\ dark = Idle
    /\ CacheIdle
    /\ MipIdle

ViewerOp(op, target) ==
    [op |-> op, target |-> target, previous |-> viewer.displayed_mip,
     minimum |-> viewer.minimum, maximum |-> viewer.maximum]

\* update_pixmap, with the display_correct_mip it ends in
UpdatePixmap(size) ==
    /\ LET num_mips == num_mips_of(size)
           index == set_current_index(
                        IF viewer.displayed_mip < num_mips
                        THEN viewer.displayed_mip ELSE num_mips, num_mips)
       IN  viewer' = [viewer EXCEPT
               !.original_texture_size = size,
               !.count = num_mips,
               !.index = index,
               !.displayed_mip = index,
               !.dimensions = IF index >= 0
                              THEN <<size[1] \div 2^index, size[2] \div 2^index>>
                              ELSE <<size[1] * 2, size[2] * 2>>,
               !.last = ViewerOp("update_pixmap", num_mips)]
    /\ UNCHANGED <<cacheVars, mipVars, unitVars, browser, results, dark>>

\* the user picks a mip in the selector: display_correct_mip
DisplayCorrectMip(index) ==
    /\ index \in 0..(viewer.count - 1)
    /\ index # viewer.index
    /\ viewer' = [viewer EXCEPT
           !.index = index,
           !.displayed_mip = index,
           !.dimensions = <<viewer.original_texture_size[1] \div 2^index,
                            viewer.original_texture_size[2] \div 2^index>>,
           !.last = ViewerOp("display_correct_mip", index)]
    /\ UNCHANGED <<cacheVars, mipVars, unitVars, browser, results, dark>>

\* the end of the three size buttons: the bounds, setValue, and
\* handle_size_changed
set_size(op, target) ==
    LET maximum == widen_maximum(viewer.maximum, target)
        minimum == widen_minimum(viewer.minimum, target)
        value == set_value(target, minimum, maximum)
    IN  [viewer EXCEPT !.minimum = minimum, !.maximum = maximum,
                       !.value = value, !.texture_size = value,
                       !.last = ViewerOp(op, target)]

SetOriginalSize ==
    /\ viewer' = set_size("set_original_size",
                     IF viewer.original_texture_size[1] > viewer.original_texture_size[2]
                     THEN viewer.original_texture_size[1]
                     ELSE viewer.original_texture_size[2])
    /\ UNCHANGED <<cacheVars, mipVars, unitVars, browser, results, dark>>

SetFillSize(viewport) ==
    /\ viewer' = set_size("set_fill_size",
                     (IF viewport[1] > viewport[2] THEN viewport[1] ELSE viewport[2])
                         - (viewport[3] + 2))
    /\ UNCHANGED <<cacheVars, mipVars, unitVars, browser, results, dark>>

SetFitSize(viewport) ==
    /\ viewer.original_texture_size[2] # 0
    /\ viewer' = set_size("set_fit_size",
                     (((IF viewport[1] < viewport[2] THEN viewport[1] ELSE viewport[2]) - 2)
                         * viewer.original_texture_size[1])
                         \div viewer.original_texture_size[2])
    /\ UNCHANGED <<cacheVars, mipVars, unitVars, browser, results, dark>>

\* wheelEvent: setValue alone, then handle_size_changed
WheelEvent(angleDelta) ==
    /\ LET target == viewer.value + (angleDelta \div 8) * 2
           value == set_value(target, viewer.minimum, viewer.maximum)
       IN  viewer' = [viewer EXCEPT !.value = value, !.texture_size = value,
                                    !.last = ViewerOp("wheelEvent", target)]
    /\ UNCHANGED <<cacheVars, mipVars, unitVars, browser, results, dark>>

NextViewer ==
    \/ \E size \in PixmapSizes : UpdatePixmap(size)
    \/ \E index \in 0..3 : DisplayCorrectMip(index)
    \/ SetOriginalSize
    \/ \E viewport \in Viewports : SetFillSize(viewport)
    \/ \E viewport \in Viewports : SetFitSize(viewport)
    \/ \E angleDelta \in AngleDeltas : WheelEvent(angleDelta)

SpecViewer == InitViewer /\ [][NextViewer]_vars

\* C22: after update_pixmap for a texture with k mip levels the selector
\* holds exactly k entries and the selected and displayed mip index lies in
\* 0..k-1, also when the index displayed before was k or larger.
MipSelectorClamped ==
    viewer.last.op = "update_pixmap" =>
        /\ viewer.count = viewer.last.target
        /\ viewer.index \in 0..(viewer.count - 1)
        /\ viewer.displayed_mip \in 0..(viewer.count - 1)

\* C26 as stated: after set_original_size, set_fill_size, set_fit_size and
\* the wheel handler the slider value and texture_size equal the target,
\* the bounds having been widened for it.
ZoomReachesTarget ==
    viewer.last.op \in {"set_original_size", "set_fill_size", "set_fit_size",
                        "wheelEvent"} =>
        /\ viewer.value = viewer.last.target
        /\ viewer.texture_size = viewer.last.target

\* C26 amended: the three size buttons widen the bounds to their target and
\* reach it; the wheel handler leaves the bounds alone and stops at the
\* nearer bound when its target lies outside them; no operation narrows the
\* bounds, and minimum <= value <= maximum and texture_size = value hold
\* throughout.
ZoomBoundsWidenForButtons ==
    /\ viewer.minimum <= viewer.value /\ viewer.value <= viewer.maximum
    /\ viewer.texture_size = viewer.value
    /\ viewer.minimum <= viewer.last.minimum
    /\ viewer.maximum >= viewer.last.maximum
    /\ viewer.last.op \in {"set_original_size", "set_fill_size", "set_fit_size"} =>
           /\ viewer.value = viewer.last.target
           /\ viewer.minimum = (IF viewer.last.target < viewer.last.minimum
                                THEN viewer.last.target ELSE viewer.last.minimum)
           /\ viewer.maximum = (IF viewer.last.target > viewer.last.maximum
                                THEN viewer.last.target ELSE viewer.last.maximum)
    /\ viewer.last.op = "wheelEvent" =>
           /\ viewer.minimum = viewer.last.minimum
           /\ viewer.maximum = viewer.last.maximum
           /\ viewer.value = (IF viewer.last.target < viewer.minimum THEN viewer.minimum
                              ELSE IF viewer.last.target > viewer.maximum THEN viewer.maximum
                              ELSE viewer.last.target)

\* a size button has raised the maximum above 1000, and later a wheel turn
\* was stopped at the raised maximum
ZoomBoundsWidenForButtonsWitness ==
    /\ viewer.last.op = "wheelEvent"
    /\ viewer.maximum > SliderMaximum
    /\ viewer.last.target > viewer.maximum
    /\ viewer.value = viewer.maximum

(***************************************************************************)
(* resultsviewer.py: ResultsViewer.update_plot and update_list.  A delta   *)
(* sequence is a list of numbers or a list of per-channel lists; an        *)
(* element is written [list, v]: a number is list = FALSE with v = <<a>>,  *)
(* a per-channel list is list = TRUE with v its numbers.                   *)
(***************************************************************************)

PlotNumbers == {0, 1}

Scalar(a) == [list |-> FALSE, v |-> <<a>>]

Channels(v) == [list |-> TRUE, v |-> v]

ScalarLists == {<<Scalar(a)>> : a \in PlotNumbers}
                   \cup {<<Scalar(a), Scalar(b)>> : a, b \in PlotNumbers}

ChannelLists == {<<Channels(<<r, g, b>>)>> : r, g, b \in PlotNumbers}
                    \cup {<<Channels(<<r, g, b, a>>)>> : r, g, b, a \in PlotNumbers}

YAxisValues == {<< >>} \cup ScalarLists \cup ChannelLists

\* type(value) == list
is_list(value) == value.list

\* the text update_list puts into numbers_list: the heading and one line
\* <<mip, channel, value>> per number, or the dash for an empty list
update_list(y_axis_values) ==
    IF Len(y_axis_values) = 0 THEN <<"   -   ", << >>>>
    ELSE IF is_list(y_axis_values[1])
    THEN <<"Information/Pixel:",
           [idx \in 1..Len(y_axis_values) |->
               [c \in 1..Len(y_axis_values[idx].v) |->
                   <<idx - 1, <<"R", "G", "B", "A">>[c], y_axis_values[idx].v[c]>>]]>>
    ELSE <<"Information/Pixel:",
           [idx \in 1..Len(y_axis_values) |-> <<<<idx - 1, "", y_axis_values[idx].v[1]>>>>]>>

\* number of lines update_plot draws
plot_lines(y_axis_values) ==
    IF is_list(y_axis_values[1]) THEN Len(y_axis_values[1].v) ELSE 1

InitResults ==
    /\ results = [plt_visible |-> TRUE, lines |-> 0,
                  numbers_list |-> <<"             ", << >>>>,
                  last |-> [op |-> "none", y_axis_values |-> << >>,
                            numbers_list |-> <<"             ", << >>>>]]
    /\ UnitsIdle
    /\ browser = Idle /\ viewer = Idle /\ dark = Idle
    /\ CacheIdle
    /\ MipIdle

UpdatePlot(y_axis_values) ==
    /\ LET op == [op |-> "update_plot", y_axis_values |-> y_axis_values,
                  numbers_list |-> results.numbers_list]
       IN  results' =
               IF Len(y_axis_values) = 0
               THEN [results EXCEPT !.plt_visible = FALSE, !.last = op]
               ELSE [results EXCEPT !.plt_visible = TRUE,
                                    !.lines = plot_lines(y_axis_values),
                                    !.numbers_list = update_list(y_axis_values),
                                    !.last = op]
    /\ UNCHANGED <<cacheVars, mipVars, unitVars, browser, viewer, dark>>

NextResults == \E y_axis_values \in YAxisValues : UpdatePlot(y_axis_values)

SpecResults == InitResults /\ [][NextResults]_vars

\* C23: whenever update_plot is given an empty delta sequence the chart is
\* hidden and the numeric panel shows the placeholder dash instead of the
\* numbers it showed before.
EmptyResultsShowDash ==
    (results.last.op = "update_plot" /\ results.last.y_axis_values = << >>) =>
        /\ ~results.plt_visible
        /\ results.numbers_list = <<"   -   ", << >>>>

(***************************************************************************)
(* ui_utilities.py: is_system_dark.  The environment is the platform, the  *)
(* outcome of the command the platform's branch runs (whether its program  *)
(* is found, its exit code and its output) and the registry.  Output is a  *)
(* sequence of tokens.                                                     *)
(***************************************************************************)

Systems == {"Darwin", "Windows", "Linux"}

\* what the queried command prints when it runs and succeeds
Outputs == {<< >>, <<"Dark", "\n">>, <<"'", "Adwaita", "'", "\n">>,
            <<"'", "Adwaita", "-dark", "'", "\n">>}

\* registry keys below HKEY_CURRENT_USER, as paths of key names: the
\* Personalize key, and a key whose one name holds the slashes
PersonalizeKey == <<"Software", "Microsoft", "Windows", "CurrentVersion", "Themes", "Personalize">>

SlashNamedKey == <<"Software/Microsoft/Windows/CurrentVersion/Themes/Personalize">>

Registries == SUBSET {PersonalizeKey, SlashNamedKey}

\* AppsUseLightTheme in a key that exists: 0, 1, or -1 for no such value
LightThemeValues == {-1, 0, 1}

\* str.strip(chars) on a sequence of tokens
RECURSIVE strip(_, _)
strip(text, chars) ==
    IF text = << >> THEN text
    ELSE IF text[1] \in chars THEN strip(Tail(text), chars)
    ELSE IF text[Len(text)] \in chars THEN strip(SubSeq(text, 1, Len(text) - 1), chars)
    ELSE text

\* a command run through the shell, or directly: its stdout
stdout_of(env) == IF env.found /\ env.exit = 0 THEN env.output ELSE << >>

detectDarkModeGnome(env) ==
    IF ~env.found THEN [raised |-> "FileNotFoundError", value |-> FALSE]
    ELSE LET currentTheme == strip(strip(stdout_of(env), {" ", "\n"}), {"'"})
         IN  [raised |-> "",
              value |-> currentTheme # << >> /\ currentTheme[Len(currentTheme)] = "-dark"]

is_system_dark(env) ==
    IF env.system = "Darwin"
    THEN [raised |-> "", value |-> stdout_of(env) # << >>]
    ELSE IF env.system = "Windows"
    THEN IF SlashNamedKey \in env.registry /\ env.light # -1
         THEN [raised |-> "", value |-> env.light = 0]
         ELSE [raised |-> "", value |-> FALSE]
    ELSE detectDarkModeGnome(env)

Environments ==
    [system : Systems, found : BOOLEAN, exit : {0, 1}, output : Outputs,
     registry : Registries, light : LightThemeValues]

InitDark ==
    /\ \E env \in Environments :
           dark = [pc |-> "ready", env |-> env, raised |-> "", value |-> FALSE]
    /\ UnitsIdle
    /\ browser = Idle /\ viewer = Idle /\ results = Idle
    /\ CacheIdle
    /\ MipIdle

IsSystemDark ==
    /\ dark.pc = "ready"
    /\ LET r == is_system_dark(dark.env)
       IN  dark' = [dark EXCEPT !.pc = "done", !.raised = r.raised, !.value = r.value]
    /\ UNCHANGED <<cacheVars, mipVars, unitVars, browser, viewer, results>>

NextDark == IsSystemDark

SpecDark == InitDark /\ [][NextDark]_vars

\* C24: on every platform branch any failure (missing registry key, command
\* not found, non-zero exit) makes is_system_dark return false, and no
\* exception reaches the caller.
DarkModeDetectionNeverFails ==
    dark.pc = "done" =>
        /\ dark.raised = ""
        /\ LET env == dark.env
               failed == IF env.system = "Windows"
                         THEN SlashNamedKey \notin env.registry \/ env.light = -1
                         ELSE ~env.found \/ env.exit # 0
           IN  failed => ~dark.value

\* C28: interpret_deltas is called with the texture type NORMAL only on raw
\* deltas that are single numbers, computed with the normal-map flag; the
\* batch scan, which computes its raw deltas without the flag, has no row
\* of type NORMAL whose raw deltas were per-channel lists.
NormalNeverFromLists ==
    \A k \in DOMAIN scan.results_table :
        scan.results_table[k][5] = "NORMAL" =>
            ~raw_deltas_are_lists(scan.dir[scan.results_table[k][2]], FALSE)

\* C29: core.SUPPORTEDFORMATS holds exactly its 19 image masks and never the
\* csv mask, whatever the File Browser has done, and the batch scan
\* enumerates no csv file.
SupportedFormatsFixed ==
    scan.pc # "idle" =>
        /\ scan.formats = SUPPORTEDFORMATS
        /\ Cardinality(scan.formats) = 19
        /\ <<"*", ".csv">> \notin scan.formats
        /\ \A k \in DOMAIN scan.files : scan.dir[scan.files[k]].suffix # <<".csv">>

(***************************************************************************)
(* The batch scan as one run of its handler: once the button was clicked   *)
(* the handler goes on to its end, pass by pass.  The directories hold     *)
(* files of one Mip0 information and no normal maps.                       *)
(***************************************************************************)

InitScanRun ==
    /\ InitScan
    /\ \A p \in DOMAIN scan.dir :
           scan.dir[p].info = 0 /\ scan.dir[p].inferred # "NORMAL"

SpecScanRun ==
    /\ InitScanRun
    /\ [][NextScan]_vars
    /\ WF_vars(\E click \in BOOLEAN, need_show \in BOOLEAN : ScanFile(click, need_show))
    /\ WF_vars(\E click \in BOOLEAN, write_fails \in BOOLEAN : WriteReport(click, write_fails))

\* C27: from the start of process_current_directory to its end the Scan
\* Directory button is disabled; every started scan ends; and at its end,
\* after all files, after Cancel or after a failed write of the report, the
\* button is enabled with its label and needs_attention was emitted once.
ScanControlRestored ==
    /\ [](scan.pc \in {"loop", "write"} =>
              ~scan.btn_enabled /\ scan.btn_text = "---" /\ scan.attention = 0)
    /\ [](scan.pc = "done" =>
              scan.btn_enabled /\ scan.btn_text = "Scan Directory" /\ scan.attention = 1)
    /\ (scan.pc = "loop") ~> (scan.pc = "done")

\* a scan of four files, canceled in its third pass, whose report could not
\* be written, has ended with the button enabled
ScanControlRestoredWitness ==
    /\ scan.pc = "done"
    /\ Len(scan.files) = 4 /\ scan.canceled /\ scan.processed = 3
    /\ scan.write_failed
    /\ scan.btn_enabled /\ scan.attention = 1

\* C30 as stated: for every width and height accepted by is_mip_mappable,
\* calculate_raw_deltas with all mips gives at least 2 deltas and as many as
\* the mip selector has entries.
MipChainOfEveryMappable ==
    (raw.pc = "done" /\ raw.b_all_mips /\ is_mip_mappable(raw.file.w, raw.file.h)) =>
        /\ Len(raw.result.value) >= 2
        /\ Len(raw.result.value) = num_mips_of(<<raw.file.w, raw.file.h>>)

\* C30 amended: for every width and height accepted by is_mip_mappable the
\* result with all mips is never empty and the fallback is never returned
\* because of a dimension; and when the image is one the engine can work on
\* (with the normal-map flag: one with three or more channels) there are at
\* least 2 deltas, as many as the mip selector has entries, every mip and
\* every halved mip has both dimensions >= 1, and every round-tripped image
\* has exactly the dimensions of the mip it is compared with.  A greyscale
\* image with the normal-map flag gives the one-element fallback.
MipChainWellFormed ==
    (raw.pc = "done" /\ raw.b_all_mips /\ is_mip_mappable(raw.file.w, raw.file.h)) =>
        LET deltas == raw.result.value
        IN  /\ Len(deltas) >= 1
            /\ raw.result.why \notin {"empty size", "size mismatch"}
            /\ (raw.is_normal_map /\ raw.file.ch < 3) =>
                   deltas = <<List(<<0, 0, 0>>)>>
            /\ (raw.is_normal_map => raw.file.ch >= 3) =>
                   /\ raw.result.why = "none"
                   /\ Len(deltas) >= 2
                   /\ Len(deltas) = num_mips_of(<<raw.file.w, raw.file.h>>)
                   /\ \A n \in DOMAIN deltas :
                          /\ deltas[n].of.h >= 1 /\ deltas[n].of.w >= 1
                          /\ cvRoundHalf(deltas[n].of.h) >= 1
                          /\ cvRoundHalf(deltas[n].of.w) >= 1
                          /\ deltas[n].of.downs = n - 1
                          /\ deltas[n].against.h = deltas[n].of.h
                          /\ deltas[n].against.w = deltas[n].of.w

\* a texture 16 high and 4 wide with all mips: two deltas, the second of
\* the 8 by 2 mip against its round trip through 4 by 1
MipChainWellFormedWitness ==
    /\ raw.pc = "done" /\ raw.b_all_mips /\ ~raw.is_normal_map
    /\ raw.file.h = 16 /\ raw.file.w = 4
    /\ Len(raw.result.value) = 2
    /\ raw.result.value[2].of.h = 8 /\ raw.result.value[2].of.w = 2
    /\ raw.result.value[2].against.downs = 2

====
